---- MODULE Spec2Model ----
(***************************************************************************)
(* Model of mlpack's NystroemMethod<KernelType, PointSelectionPolicy>      *)
(* (src/mlpack/methods/nystroem_method/nystroem_method_impl.hpp).          *)
(*                                                                         *)
(* One behaviour fixes a dataset, a kernel and a rank (the constructor's   *)
(* arguments) and then runs up to MaxCalls calls of Apply(), each by an    *)
(* approximator instantiated with one of the three selection policies, as  *)
(* KernelPCASamplingSchemeTest does.  GetKernelMatrix runs one loop test   *)
(* or one cell assignment per step.                                        *)
(*                                                                         *)
(* Numbers.  Kernel values, U, s and V are integers; the normalization and *)
(* the output are exact rationals [n, d], and every non-finite IEEE value  *)
(* (+inf, -inf, NaN) is the single absorbing value NonFinite.  The         *)
(* datasets are the pairwise-orthogonal ones (point i is c_i times the     *)
(* i-th unit vector), so that every mini-kernel is diagonal and has an     *)
(* exact singular value decomposition with permutation matrices U and V   *)
(* and perfect-square singular values.                                     *)
(***************************************************************************)
EXTENDS Integers, Sequences, FiniteSets, TLC

\* Largest number of points of a dataset.
MaxN == 3

\* Number of Apply() calls of one behaviour.
MaxCalls == 2

\* Dimensionality of the points, one axis per point.
Dim == MaxN

\* The requested ranks: 0 and MaxN + 1 are the invalid ones.
Ranks == 0..(MaxN + 1)

\* Coordinates of the dataset's points and of the synthesized centroids.
Coefs == {0, 1, 2}
CentroidCoefs == {1, 2}

\* What an uninitialised cell of a freshly allocated matrix may hold.
Garbage == {0, 1}

Policies == {"ordered", "random", "kmeans"}
Kernels == {"linear"}

\* The tie-breaking rule of the SVD routine among equal singular values.
SvdImpls == {"lo", "hi"}

-----------------------------------------------------------------------------
(* Exact arithmetic. *)

Abs(x) == IF x < 0 THEN -x ELSE x

RECURSIVE GCD(_, _)
GCD(a, b) == IF b = 0 THEN a ELSE GCD(b, a % b)

\* The one value standing for +inf, -inf and NaN.
NonFinite == [n |-> 1, d |-> 0]

IsFinite(x) == x.d # 0

\* A rational in lowest terms with a positive denominator.
Rat(n, d) ==
  IF d = 0 THEN NonFinite
  ELSE LET g == GCD(Abs(n), Abs(d))
           sg == IF d < 0 THEN -1 ELSE 1
       IN [n |-> sg * (n \div g), d |-> sg * (d \div g)]

R(x) == [n |-> x, d |-> 1]

RAdd(a, b) ==
  IF ~IsFinite(a) \/ ~IsFinite(b) THEN NonFinite
  ELSE Rat(a.n * b.d + b.n * a.d, a.d * b.d)

RMul(a, b) ==
  IF ~IsFinite(a) \/ ~IsFinite(b) THEN NonFinite
  ELSE Rat(a.n * b.n, a.d * b.d)

\* The integer square root (exact on the perfect squares).
ISqrt(x) == CHOOSE r \in 0..x : r * r <= x /\ (r + 1) * (r + 1) > x

\* 1.0 / sqrt(x) in IEEE arithmetic: x = 0 gives +inf.
InvSqrt(x) == IF x <= 0 THEN NonFinite ELSE Rat(1, ISqrt(x))

\* f[0] + ... + f[k] over the integers and over the rationals.
RECURSIVE SumTo(_, _)
SumTo(f, k) == IF k < 0 THEN 0 ELSE f[k] + SumTo(f, k - 1)

RECURSIVE RSumTo(_, _)
RSumTo(f, k) == IF k < 0 THEN R(0) ELSE RAdd(f[k], RSumTo(f, k - 1))

-----------------------------------------------------------------------------
(* Matrices: rows, cols and the cells a[<<i, j>>], indexed from 0. *)

Cells(r, c) == (0..(r - 1)) \X (0..(c - 1))

Mat(r, c, f(_, _)) ==
  [rows |-> r, cols |-> c, a |-> [p \in Cells(r, c) |-> f(p[1], p[2])]]

\* A 0 x 0 matrix: arma::mat's default constructor, and a destroyed local.
EmptyMat == Mat(0, 0, LAMBDA x, y : 0)

\* arma::mat(r, c) leaves its memory uninitialised.
UninitMat(r, c, g) == Mat(r, c, LAMBDA x, y : g)

ZeroCount(r, c) == [p \in Cells(r, c) |-> 0]

\* Integer matrix product.
IMatMul(A, B) ==
  Mat(A.rows, B.cols,
      LAMBDA x, y : SumTo([k \in 0..(A.cols - 1) |-> A.a[<<x, k>>] * B.a[<<k, y>>]],
                          A.cols - 1))

\* Rational matrix product.
RMatMul(A, B) ==
  Mat(A.rows, B.cols,
      LAMBDA x, y : RSumTo([k \in 0..(A.cols - 1) |-> RMul(A.a[<<x, k>>], B.a[<<k, y>>])],
                           A.cols - 1))

Lift(A) == Mat(A.rows, A.cols, LAMBDA x, y : R(A.a[<<x, y>>]))

-----------------------------------------------------------------------------
(* Points and the kernel. *)

\* The point c * e_k.
Pt(c, k) == [a \in 0..(Dim - 1) |-> IF a = k THEN c ELSE 0]

Dot(p, q) == SumTo([a \in 0..(Dim - 1) |-> p[a] * q[a]], Dim - 1)

\* kernel.Evaluate(a, b) of the linear kernel: symmetric, without side
\* effects.
Evaluate(kern, p, q) == Dot(p, q)

-----------------------------------------------------------------------------
(* The point selection policies: Select(data, rank). *)

\* A dataset: n_cols points, col[i] the i-th one.
Datasets ==
  UNION { { [n_cols |-> n, col |-> [k \in 0..(n - 1) |-> Pt(c[k], k)]] :
              c \in [0..(n - 1) -> Coefs] } : n \in 1..MaxN }

DistinctPoints(dat) == Cardinality({ dat.col[k] : k \in 0..(dat.n_cols - 1) })

SelectError(e, m) ==
  [err |-> e, kind |-> "idx", idx |-> [k \in 0..(m - 1) |-> 0], pts |-> <<>>]

SelectedIndices(f) == [err |-> "none", kind |-> "idx", idx |-> f, pts |-> <<>>]

SelectedPoints(f) == [err |-> "none", kind |-> "pts", idx |-> <<>>, pts |-> f]

\* Ordered: the first m indices, in order.
OrderedSelect(dat, m) == { SelectedIndices([k \in 0..(m - 1) |-> k]) }

\* Random: m pairwise distinct indices of [0, n), in any order.
RandomSelect(dat, m) ==
  { SelectedIndices(f) :
      f \in { g \in [0..(m - 1) -> 0..(dat.n_cols - 1)] :
                \A x, y \in 0..(m - 1) : x # y => g[x] # g[y] } }

\* Clustering-based: m synthesized centroids, or a ConvergenceError when the
\* dataset has fewer distinct points than m.
KMeansSelect(dat, m) ==
  IF m > DistinctPoints(dat) THEN { SelectError("ConvergenceError", m) }
  ELSE { SelectedPoints([k \in 0..(m - 1) |-> Pt(c[k], k)]) :
           c \in [0..(m - 1) -> CentroidCoefs] }

\* The outcomes of PointSelectionPolicy::Select(data, rank).
Select(pol, dat, m) ==
  IF m = 0 THEN { SelectError("InvalidArgument", m) }
  ELSE IF pol \in {"ordered", "random"} /\ m > dat.n_cols
    THEN { SelectError("InvalidArgument", m) }
  ELSE IF pol = "ordered" THEN OrderedSelect(dat, m)
  ELSE IF pol = "random" THEN RandomSelect(dat, m)
  ELSE KMeansSelect(dat, m)

-----------------------------------------------------------------------------
(* arma::svd(U, s, V, X) on a diagonal X: s holds the absolute diagonal     *)
(* entries in descending order, U is the permutation matrix that sorts     *)
(* them and V is U with the signs of the entries.  impl orders equal       *)
(* singular values by ascending ("lo") or descending ("hi") index.         *)

\* The number of diagonal entries that come before entry k in s.
SvdPos(X, impl, k) ==
  Cardinality({ m \in 0..(X.rows - 1) :
    \/ Abs(X.a[<<m, m>>]) > Abs(X.a[<<k, k>>])
    \/ /\ Abs(X.a[<<m, m>>]) = Abs(X.a[<<k, k>>])
       /\ IF impl = "lo" THEN m < k ELSE m > k })

\* The index of the diagonal entry that becomes singular value p.
SvdSrc(X, impl, p) == CHOOSE k \in 0..(X.rows - 1) : SvdPos(X, impl, k) = p

Sign(x) == IF x < 0 THEN -1 ELSE 1

SVD(X, impl) ==
  [U |-> Mat(X.rows, X.rows,
             LAMBDA x, y : IF x = SvdSrc(X, impl, y) THEN 1 ELSE 0),
   s |-> [p \in 0..(X.rows - 1) |->
            Abs(X.a[<<SvdSrc(X, impl, p), SvdSrc(X, impl, p)>>])],
   V |-> Mat(X.rows, X.rows,
             LAMBDA x, y : IF x = SvdSrc(X, impl, y)
                             THEN Sign(X.a[<<x, x>>]) ELSE 0)]

\* arma::diagmat(1.0 / sqrt(s)).
Normalization(sv, r) ==
  Mat(r, r, LAMBDA x, y : IF x = y THEN InvSqrt(sv[x]) ELSE R(0))

\* Mutant: the semi-kernel factor is left out of the product.
AssembleNoSemi(sk, u, nrm, v) == RMatMul(RMatMul(Lift(u), nrm), Lift(v))

\* Mutant: the last factor is the transpose of V.
AssembleTransposedV(sk, u, nrm, v) ==
  RMatMul(RMatMul(Lift(IMatMul(sk, u)), nrm),
          Lift(Mat(v.cols, v.rows, LAMBDA x, y : v.a[<<y, x>>])))

\* output = semiKernel * U * normalization * V.
Assemble(sk, u, nrm, v) ==
  RMatMul(RMatMul(Lift(IMatMul(sk, u)), nrm), Lift(v))

-----------------------------------------------------------------------------
(* The state. *)

VARIABLES
  data,            \* NystroemMethod::data, the dataset (a const reference)
  kernel,          \* NystroemMethod::kernel
  rank,            \* NystroemMethod::rank
  svdImpl,         \* the SVD routine the build links
  pc,              \* where the current Apply() call is
  policy,          \* PointSelectionPolicy of the approximator being applied
  landmarks,       \* the value of Select(data, rank) passed to GetKernelMatrix
  sel,             \* the synthesized landmark storage: alive, releases, staleRead
  i, j,            \* the loop counters of GetKernelMatrix
  miniKernel,      \* Apply's local miniKernel
  semiKernel,      \* Apply's local semiKernel
  miniCount,       \* how often each cell of miniKernel was assigned in this call
  semiCount,       \* how often each cell of semiKernel was assigned in this call
  evals,           \* the number of kernel.Evaluate calls of this call
  U, s, V,         \* Apply's locals U, s, V
  normalization,   \* Apply's local normalization
  output,          \* the caller's output matrix
  status,          \* "running", "ok" or the error the call failed with
  calls,           \* the number of Apply() calls started
  results          \* what each finished call left to its caller

config == <<data, kernel, rank, svdImpl>>
locals == <<landmarks, sel, i, j, miniKernel, semiKernel, miniCount, semiCount,
            evals, U, s, V, normalization>>
vars == <<data, kernel, rank, svdImpl, pc, policy, landmarks, sel, i, j,
          miniKernel, semiKernel, miniCount, semiCount, evals, U, s, V,
          normalization, output, status, calls, results>>

NoLandmarks == SelectError("none", 0)
NoStorage == [alive |-> "none", releases |-> 0, staleRead |-> FALSE]

\* The constructor stores its three arguments; nothing else exists yet.
Init ==
  /\ data \in Datasets
  /\ kernel \in Kernels
  /\ rank \in Ranks
  /\ svdImpl \in SvdImpls
  /\ pc = "idle"
  /\ policy = "none"
  /\ landmarks = NoLandmarks
  /\ sel = NoStorage
  /\ i = 0 /\ j = 0
  /\ miniKernel = EmptyMat /\ semiKernel = EmptyMat
  /\ miniCount = ZeroCount(0, 0) /\ semiCount = ZeroCount(0, 0)
  /\ evals = 0
  /\ U = EmptyMat /\ s = <<>> /\ V = EmptyMat
  /\ normalization = EmptyMat
  /\ output = EmptyMat
  /\ status = "none"
  /\ calls = 0
  /\ results = <<>>

\* Landmark k of the current call, as a point.
Landmark(k) ==
  IF landmarks.kind = "idx" THEN data.col[landmarks.idx[k]] ELSE landmarks.pts[k]

LandmarkSeq ==
  IF landmarks.err # "none" \/ pc \in {"idle", "select"} THEN <<>>
  ELSE [k \in 1..rank |-> Landmark(k - 1)]

-----------------------------------------------------------------------------
(* Apply(): the locals and the selection. *)

\* arma::mat miniKernel(rank, rank); arma::mat semiKernel(data.n_cols, rank);
\* the caller hands in a default-constructed output matrix.
ApplyBegin(pol, g) ==
  /\ pc = "idle"
  /\ calls < MaxCalls
  /\ calls' = calls + 1
  /\ policy' = pol
  /\ miniKernel' = UninitMat(rank, rank, g)
  /\ semiKernel' = UninitMat(data.n_cols, rank, g)
  /\ miniCount' = ZeroCount(rank, rank)
  /\ semiCount' = ZeroCount(data.n_cols, rank)
  /\ evals' = 0
  /\ landmarks' = NoLandmarks
  /\ sel' = NoStorage
  /\ i' = 0 /\ j' = 0
  /\ U' = EmptyMat /\ s' = <<>> /\ V' = EmptyMat
  /\ normalization' = EmptyMat
  /\ output' = EmptyMat
  /\ status' = "running"
  /\ pc' = "select"
  /\ UNCHANGED <<config, results>>

\* Mutant: the exception of Select is swallowed and the call goes on.
AfterSelectSwallowed(res) == "mini"

\* Where Apply goes once Select has returned or thrown: nothing in Apply
\* catches, so a throwing Select ends the call before GetKernelMatrix.
AfterSelect(res) == IF res.err # "none" THEN "unwind" ELSE "mini"

\* GetKernelMatrix(PointSelectionPolicy::Select(data, rank), ...): the
\* argument is evaluated first.
ApplySelect ==
  /\ pc = "select"
  /\ \E res \in Select(policy, data, rank) :
       /\ landmarks' = res
       /\ status' = IF res.err # "none" THEN res.err ELSE status
       /\ sel' = IF res.err = "none" /\ res.kind = "pts"
                  THEN [sel EXCEPT !.alive = "live"] ELSE sel
       /\ pc' = AfterSelect(res)
  /\ i' = 0 /\ j' = 0
  /\ UNCHANGED <<config, policy, miniKernel, semiKernel, miniCount, semiCount,
                 evals, U, s, V, normalization, output, calls, results>>

-----------------------------------------------------------------------------
(* GetKernelMatrix(const arma::Col<size_t>& selectedPoints, ...). *)

\* Mutant: only the lower triangle of the mini-kernel is filled.
IdxMiniColsTriangular == i + 1

\* Mutant: the semi-kernel's rows are bounded by rank, not by data.n_cols.
IdxSemiRowsRank == rank

\* Mutant: the landmark is taken as data.col(j), without selectedPoints.
IdxSemiValueDirect(x, y) == Evaluate(kernel, data.col[x], data.col[y])

\* for (size_t i = 0; i < rank; ++i)  for (size_t j = 0; j < rank; ++j)
IdxMiniRows == rank
IdxMiniCols == rank

\* for (size_t i = 0; i < data.n_cols; ++i)  for (size_t j = 0; j < rank; ++j)
IdxSemiRows == data.n_cols
IdxSemiCols == rank

\* kernel.Evaluate(data.col(selectedPoints(i)), data.col(selectedPoints(j)))
IdxMiniValue(x, y) ==
  Evaluate(kernel, data.col[landmarks.idx[x]], data.col[landmarks.idx[y]])

\* kernel.Evaluate(data.col(i), data.col(selectedPoints(j)))
IdxSemiValue(x, y) ==
  Evaluate(kernel, data.col[x], data.col[landmarks.idx[y]])

\* One step of the mini-kernel loops: the exit, the next row, or
\* miniKernel(i, j) = ...
IdxMiniStep ==
  /\ pc = "mini"
  /\ landmarks.kind = "idx"
  /\ IF ~(i < IdxMiniRows)
       THEN /\ pc' = "semi"
            /\ i' = 0 /\ j' = 0
            /\ UNCHANGED <<miniKernel, miniCount, evals>>
     ELSE IF ~(j < IdxMiniCols)
       THEN /\ i' = i + 1 /\ j' = 0
            /\ UNCHANGED <<pc, miniKernel, miniCount, evals>>
     ELSE /\ miniKernel' = [miniKernel EXCEPT !.a[<<i, j>>] = IdxMiniValue(i, j)]
          /\ miniCount' = [miniCount EXCEPT ![<<i, j>>] = @ + 1]
          /\ evals' = evals + 1
          /\ j' = j + 1
          /\ UNCHANGED <<pc, i>>
  /\ UNCHANGED <<config, policy, landmarks, sel, semiKernel, semiCount, U, s, V,
                 normalization, output, status, calls, results>>

\* One step of the semi-kernel loops; the function returns at their exit.
IdxSemiStep ==
  /\ pc = "semi"
  /\ landmarks.kind = "idx"
  /\ IF ~(i < IdxSemiRows)
       THEN /\ pc' = "svd"
            /\ i' = 0 /\ j' = 0
            /\ UNCHANGED <<semiKernel, semiCount, evals>>
     ELSE IF ~(j < IdxSemiCols)
       THEN /\ i' = i + 1 /\ j' = 0
            /\ UNCHANGED <<pc, semiKernel, semiCount, evals>>
     ELSE /\ semiKernel' = [semiKernel EXCEPT !.a[<<i, j>>] = IdxSemiValue(i, j)]
          /\ semiCount' = [semiCount EXCEPT ![<<i, j>>] = @ + 1]
          /\ evals' = evals + 1
          /\ j' = j + 1
          /\ UNCHANGED <<pc, i>>
  /\ UNCHANGED <<config, policy, landmarks, sel, miniKernel, miniCount, U, s, V,
                 normalization, output, status, calls, results>>

-----------------------------------------------------------------------------
(* GetKernelMatrix(const arma::mat* selectedData, ...). *)

\* Mutant: the semi-kernel's rows are bounded by rank, not by data.n_cols.
PtsSemiRowsRank == rank

\* Mutant: the storage is never deleted.
ReleaseForgotten(st) == st

PtsMiniRows == rank
PtsMiniCols == rank
PtsSemiRows == data.n_cols
PtsSemiCols == rank

\* kernel.Evaluate(selectedData->col(i), selectedData->col(j))
PtsMiniValue(x, y) == Evaluate(kernel, landmarks.pts[x], landmarks.pts[y])

\* kernel.Evaluate(data.col(i), selectedData->col(j))
PtsSemiValue(x, y) == Evaluate(kernel, data.col[x], landmarks.pts[y])

\* A read of *selectedData: stale once the storage is deleted.
ReadStorage(st) == [st EXCEPT !.staleRead = @ \/ st.alive # "live"]

\* delete selectedData.
Release(st) == [st EXCEPT !.alive = "freed", !.releases = @ + 1]

PtsMiniStep ==
  /\ pc = "mini"
  /\ landmarks.kind = "pts"
  /\ IF ~(i < PtsMiniRows)
       THEN /\ pc' = "semi"
            /\ i' = 0 /\ j' = 0
            /\ UNCHANGED <<miniKernel, miniCount, evals, sel>>
     ELSE IF ~(j < PtsMiniCols)
       THEN /\ i' = i + 1 /\ j' = 0
            /\ UNCHANGED <<pc, miniKernel, miniCount, evals, sel>>
     ELSE /\ miniKernel' = [miniKernel EXCEPT !.a[<<i, j>>] = PtsMiniValue(i, j)]
          /\ miniCount' = [miniCount EXCEPT ![<<i, j>>] = @ + 1]
          /\ evals' = evals + 1
          /\ sel' = ReadStorage(sel)
          /\ j' = j + 1
          /\ UNCHANGED <<pc, i>>
  /\ UNCHANGED <<config, policy, landmarks, semiKernel, semiCount, U, s, V,
                 normalization, output, status, calls, results>>

PtsSemiStep ==
  /\ pc = "semi"
  /\ landmarks.kind = "pts"
  /\ IF ~(i < PtsSemiRows)
       THEN /\ pc' = "delete"
            /\ i' = 0 /\ j' = 0
            /\ UNCHANGED <<semiKernel, semiCount, evals, sel>>
     ELSE IF ~(j < PtsSemiCols)
       THEN /\ i' = i + 1 /\ j' = 0
            /\ UNCHANGED <<pc, semiKernel, semiCount, evals, sel>>
     ELSE /\ semiKernel' = [semiKernel EXCEPT !.a[<<i, j>>] = PtsSemiValue(i, j)]
          /\ semiCount' = [semiCount EXCEPT ![<<i, j>>] = @ + 1]
          /\ evals' = evals + 1
          /\ sel' = ReadStorage(sel)
          /\ j' = j + 1
          /\ UNCHANGED <<pc, i>>
  /\ UNCHANGED <<config, policy, landmarks, miniKernel, miniCount, U, s, V,
                 normalization, output, status, calls, results>>

\* // Clean the memory.  delete selectedData;  and the function returns.
PtsDelete ==
  /\ pc = "delete"
  /\ sel' = Release(sel)
  /\ pc' = "svd"
  /\ UNCHANGED <<config, policy, landmarks, i, j, miniKernel, semiKernel,
                 miniCount, semiCount, evals, U, s, V, normalization, output,
                 status, calls, results>>

-----------------------------------------------------------------------------
(* Apply(): the reconstruction. *)

\* arma::svd(U, s, V, miniKernel).
ApplySvd ==
  /\ pc = "svd"
  /\ LET d == SVD(miniKernel, svdImpl)
     IN U' = d.U /\ s' = d.s /\ V' = d.V
  /\ pc' = "norm"
  /\ UNCHANGED <<config, policy, landmarks, sel, i, j, miniKernel, semiKernel,
                 miniCount, semiCount, evals, normalization, output, status,
                 calls, results>>

\* arma::mat normalization = arma::diagmat(1.0 / sqrt(s)).
ApplyNormalize ==
  /\ pc = "norm"
  /\ normalization' = Normalization(s, miniKernel.rows)
  /\ pc' = "assemble"
  /\ UNCHANGED <<config, policy, landmarks, sel, i, j, miniKernel, semiKernel,
                 miniCount, semiCount, evals, U, s, V, output, status, calls,
                 results>>

\* output = semiKernel * U * normalization * V.
ApplyAssemble ==
  /\ pc = "assemble"
  /\ output' = Assemble(semiKernel, U, normalization, V)
  /\ status' = "ok"
  /\ pc' = "return"
  /\ UNCHANGED <<config, policy, landmarks, sel, i, j, miniKernel, semiKernel,
                 miniCount, semiCount, evals, U, s, V, normalization, calls,
                 results>>

\* Mutant: the matrix outlives the call (a static local, or a member).
KeepLocal(m) == m

\* What is left of a local matrix once Apply's scope ends.
DestroyLocal(m) == EmptyMat

\* The call ends, by return or by the exception leaving Apply: the locals
\* are destroyed and the caller keeps its output matrix.
ApplyExit ==
  /\ pc \in {"return", "unwind"}
  /\ results' = Append(results, [policy |-> policy, status |-> status,
                                 output |-> output, landmarks |-> LandmarkSeq])
  /\ miniKernel' = DestroyLocal(miniKernel)
  /\ semiKernel' = DestroyLocal(semiKernel)
  /\ U' = DestroyLocal(U)
  /\ V' = DestroyLocal(V)
  /\ normalization' = DestroyLocal(normalization)
  /\ s' = <<>>
  /\ landmarks' = NoLandmarks
  /\ i' = 0 /\ j' = 0
  /\ pc' = "idle"
  /\ UNCHANGED <<config, policy, sel, miniCount, semiCount, evals, output,
                 status, calls>>

Next ==
  \/ \E pol \in Policies, g \in Garbage : ApplyBegin(pol, g)
  \/ ApplySelect
  \/ IdxMiniStep
  \/ IdxSemiStep
  \/ PtsMiniStep
  \/ PtsSemiStep
  \/ PtsDelete
  \/ ApplySvd
  \/ ApplyNormalize
  \/ ApplyAssemble
  \/ ApplyExit

Spec == Init /\ [][Next]_vars

\* One approximator applied once: the behaviours of a single Apply() call.
NextOnce ==
  \/ \E pol \in Policies, g \in Garbage : calls = 0 /\ ApplyBegin(pol, g)
  \/ ApplySelect
  \/ IdxMiniStep
  \/ IdxSemiStep
  \/ PtsMiniStep
  \/ PtsSemiStep
  \/ PtsDelete
  \/ ApplySvd
  \/ ApplyNormalize
  \/ ApplyAssemble
  \/ ApplyExit

SpecOnce == Init /\ [][NextOnce]_vars

-----------------------------------------------------------------------------
(* Vocabulary of the properties. *)

N == data.n_cols

IndexBased(pol) == pol \in {"ordered", "random"}

\* The ranks Select rejects: 0, and more landmarks than points to index.
BadRank(pol) == rank = 0 \/ (rank > N /\ IndexBased(pol))

InGetKernelMatrix == pc \in {"mini", "semi", "delete"}
InReconstruction == pc \in {"svd", "norm", "assemble", "return"}

Finished == 1..Len(results)

\* Entry (x, y) of semiKernel * U * normalization * W, summed term by term,
\* where W is V, or the transpose of V when transposed.
ProductEntry(x, y, transposed) ==
  RSumTo([a \in 0..(rank - 1) |->
    RSumTo([b \in 0..(rank - 1) |->
      RSumTo([c \in 0..(rank - 1) |->
        RMul(RMul(R(semiKernel.a[<<x, a>>] * U.a[<<a, b>>]),
                  normalization.a[<<b, c>>]),
             R(IF transposed THEN V.a[<<y, c>>] ELSE V.a[<<c, y>>]))],
        rank - 1)], rank - 1)], rank - 1)

\* Entry (x, y) of U * diag(s) * transpose(V).
SvdEntry(x, y) ==
  SumTo([k \in 0..(rank - 1) |-> U.a[<<x, k>>] * s[k] * V.a[<<y, k>>]], rank - 1)

-----------------------------------------------------------------------------
(* C1 *)

\* C1: when GetKernelMatrix returns, in either overload, miniKernel(x, y) is
\* kernel.Evaluate(landmark x, landmark y) for all x, y < rank, and
\* semiKernel(x, y) is kernel.Evaluate(data point x, landmark y) for all
\* x < n, y < rank.
C1_KernelBlocks ==
  pc = "svd" =>
    /\ \A x, y \in 0..(rank - 1) :
         miniKernel.a[<<x, y>>] = Evaluate(kernel, Landmark(x), Landmark(y))
    /\ \A x \in 0..(N - 1), y \in 0..(rank - 1) :
         semiKernel.a[<<x, y>>] = Evaluate(kernel, data.col[x], Landmark(y))

\* The index overload has returned with blocks that are not all zero, for
\* landmarks that are not the first points in order.
C1_Witness ==
  /\ pc = "svd"
  /\ landmarks.kind = "idx"
  /\ rank >= 2
  /\ N > rank
  /\ landmarks.idx[0] # 0
  /\ \E x \in 0..(N - 1), y \in 0..(rank - 1) : semiKernel.a[<<x, y>>] # 0

-----------------------------------------------------------------------------
(* C2 *)

\* C2: with 1 <= rank <= n, an Apply() that returns leaves an output matrix
\* of exactly n rows and rank columns, whatever the policy, and with an
\* index-based policy it does return.
C2_Shape ==
  /\ (pc = "return" /\ 1 <= rank /\ rank <= N) =>
       /\ output.rows = N
       /\ output.cols = rank
       /\ DOMAIN output.a = Cells(N, rank)
  /\ \A k \in Finished :
       (1 <= rank /\ rank <= N) =>
         /\ IndexBased(results[k].policy) => results[k].status = "ok"
         /\ results[k].status = "ok" =>
              /\ results[k].output.rows = N
              /\ results[k].output.cols = rank

\* Apply() has returned a non-square output under the clustering policy.
C2_Witness ==
  /\ pc = "return"
  /\ policy = "kmeans"
  /\ rank = 2
  /\ N = 3
  /\ output.rows = 3
  /\ output.cols = 2

-----------------------------------------------------------------------------
(* C3 *)

\* C3 as stated: the output is SemiKernel * U * N * transpose(V).
C3_Original ==
  pc = "return" =>
    \A x \in 0..(N - 1), y \in 0..(rank - 1) :
      output.a[<<x, y>>] = ProductEntry(x, y, TRUE)

\* C3, amended: (U, s, V) is a singular value decomposition of the
\* mini-kernel, the normalization is diag(1/sqrt(s_k)), and the output is
\* SemiKernel * U * N * V: the last factor is V itself, not its transpose.
C3_Assembly ==
  pc = "return" =>
    /\ \A x, y \in 0..(rank - 1) : miniKernel.a[<<x, y>>] = SvdEntry(x, y)
    /\ \A k \in 0..(rank - 2) : s[k] >= s[k + 1]
    /\ \A x, y \in 0..(rank - 1) :
         LET q == normalization.a[<<x, y>>]
         IN IF x # y THEN q = R(0)
            ELSE IF s[x] = 0 THEN q = NonFinite
            ELSE IsFinite(q) /\ q.n > 0 /\ RMul(RMul(q, q), R(s[x])) = R(1)
    /\ \A x \in 0..(N - 1), y \in 0..(rank - 1) :
         output.a[<<x, y>>] = ProductEntry(x, y, FALSE)

\* Apply() has assembled a finite output from a V that is not symmetric.
C3_Witness ==
  /\ pc = "return"
  /\ rank = 3
  /\ \E x, y \in 0..(rank - 1) : V.a[<<x, y>>] # V.a[<<y, x>>]
  /\ \A x \in 0..(N - 1), y \in 0..(rank - 1) : IsFinite(output.a[<<x, y>>])
  /\ \E x \in 0..(N - 1), y \in 0..(rank - 1) :
       ProductEntry(x, y, FALSE) # ProductEntry(x, y, TRUE)

-----------------------------------------------------------------------------
(* C4 *)

\* C4: Apply() with rank = 0, or with rank > n under an index-based policy,
\* fails with InvalidArgument before GetKernelMatrix is entered: no kernel
\* value is computed, no cell of either block is written, and the caller's
\* output matrix is left as it was handed in.
C4_BoundaryFailure ==
  /\ BadRank(policy) =>
       /\ ~InGetKernelMatrix
       /\ ~InReconstruction
       /\ pc = "unwind" =>
            /\ status = "InvalidArgument"
            /\ output = EmptyMat
            /\ evals = 0
            /\ \A p \in DOMAIN miniCount : miniCount[p] = 0
            /\ \A p \in DOMAIN semiCount : semiCount[p] = 0
  /\ \A k \in Finished :
       BadRank(results[k].policy) =>
         /\ results[k].status = "InvalidArgument"
         /\ results[k].output = EmptyMat

\* A call with rank > n under the Random policy has failed.
C4_Witness ==
  /\ pc = "unwind"
  /\ rank > N
  /\ policy = "random"
  /\ status = "InvalidArgument"

-----------------------------------------------------------------------------
(* C5 *)

\* C5: when a singular value of the mini-kernel is zero, Apply() either
\* drops that component (no 1/sqrt of it enters the output) or fails with
\* NumericalDegeneracy; it never returns an output computed from it.
C5_NoDegradedSuccess ==
  (pc = "return" /\ \E k \in 0..(rank - 1) : s[k] = 0) =>
    \/ status = "NumericalDegeneracy"
    \/ /\ \A k \in 0..(rank - 1) :
            s[k] = 0 => normalization.a[<<k, k>>] = R(0)
       /\ \A x \in 0..(N - 1), y \in 0..(rank - 1) : IsFinite(output.a[<<x, y>>])

-----------------------------------------------------------------------------
(* C6 *)

\* C6: any two finished Apply() calls under the Ordered policy, on the same
\* dataset, kernel and rank, ended the same way and with identical outputs,
\* however many calls came before them.
C6_OrderedDeterministic ==
  \A a, b \in Finished :
    (results[a].policy = "ordered" /\ results[b].policy = "ordered") =>
      /\ results[a].status = results[b].status
      /\ results[a].output = results[b].output

\* Two Ordered calls have both returned an output with a non-zero entry, on
\* a dataset with more points than landmarks.
C6_Witness ==
  /\ Len(results) = 2
  /\ results[1].policy = "ordered"
  /\ results[2].policy = "ordered"
  /\ results[1].status = "ok"
  /\ rank >= 2
  /\ N > rank
  /\ \E p \in DOMAIN results[2].output.a : results[2].output.a[p] \notin {R(0), NonFinite}

-----------------------------------------------------------------------------
(* C7 *)

\* C7: when Apply() starts the singular value decomposition, every cell of
\* the rank x rank mini-kernel and of the n x rank semi-kernel has been
\* assigned exactly once in this call, with rank^2 + n * rank kernel
\* evaluations in all.
C7_ExactlyOnce ==
  pc = "svd" =>
    /\ DOMAIN miniCount = Cells(rank, rank)
    /\ DOMAIN semiCount = Cells(N, rank)
    /\ \A p \in Cells(rank, rank) : miniCount[p] = 1
    /\ \A p \in Cells(N, rank) : semiCount[p] = 1
    /\ evals = rank * rank + N * rank

\* The decomposition is about to start on blocks of several rows and columns.
C7_Witness ==
  /\ pc = "svd"
  /\ rank = 2
  /\ N = 3
  /\ evals = 10

-----------------------------------------------------------------------------
(* C8 *)

AllCellsWritten ==
  /\ \A p \in Cells(rank, rank) : miniCount[p] >= 1
  /\ \A p \in Cells(N, rank) : semiCount[p] >= 1

\* C8: on the synthesized-points path GetKernelMatrix deletes the landmark
\* storage exactly once, after the last cell of both blocks is written, and
\* reads no landmark column afterwards; on the index path nothing is deleted.
C8_Release ==
  /\ sel.releases <= 1
  /\ ~sel.staleRead
  /\ sel.alive = "freed" => AllCellsWritten
  /\ (InReconstruction /\ landmarks.kind = "pts") =>
       /\ sel.releases = 1
       /\ sel.alive = "freed"
  /\ (InGetKernelMatrix /\ pc # "delete" /\ landmarks.kind = "pts") =>
       /\ sel.releases = 0
       /\ sel.alive = "live"
  /\ ((InGetKernelMatrix \/ InReconstruction) /\ landmarks.kind = "idx") =>
       /\ sel.releases = 0
       /\ sel.alive = "none"

\* The points overload has returned after filling blocks of several cells.
C8_Witness ==
  /\ pc = "svd"
  /\ landmarks.kind = "pts"
  /\ rank >= 2
  /\ sel.releases = 1

-----------------------------------------------------------------------------
(* C9 *)

\* C9: no step of Apply() changes the dataset, the kernel or the rank; when
\* a call has ended none of its mini-kernel, semi-kernel, U, s, V or
\* normalization is left, and a call begins with all of them unset.
C9_Frame ==
  [][/\ data' = data
     /\ kernel' = kernel
     /\ rank' = rank
     /\ pc' = "idle" =>
          /\ miniKernel' = EmptyMat /\ semiKernel' = EmptyMat
          /\ U' = EmptyMat /\ V' = EmptyMat /\ s' = <<>>
          /\ normalization' = EmptyMat
     /\ pc' = "select" =>
          /\ \A p \in DOMAIN miniCount' : miniCount'[p] = 0
          /\ \A p \in DOMAIN semiCount' : semiCount'[p] = 0
          /\ U' = EmptyMat /\ V' = EmptyMat /\ s' = <<>>
          /\ normalization' = EmptyMat
          /\ landmarks' = NoLandmarks]_vars

\* A second call has begun after a first one returned an output.
C9_Witness ==
  /\ calls = 2
  /\ pc = "select"
  /\ Len(results) = 1
  /\ results[1].status = "ok"
  /\ rank >= 2

-----------------------------------------------------------------------------
(* C10 *)

====
